---- MODULE Spec2Model ----
(***************************************************************************)
(* The refund conversation workflow of Try/agent.py (RefundAgent, a        *)
(* LangGraph StateGraph of five nodes) driven by the /chat handler of      *)
(* Try/main.py (and its copy teacher_rag/app/refund_agent/router.py).      *)
(*                                                                         *)
(* Texts (messages, responses, e-mail addresses) are sequences of tokens;  *)
(* a token is a maximal piece of text the regular expressions of the code  *)
(* treat as a unit (a blank, an order identifier, a mailbox, other words). *)
(* Optional values are sequences of length 0 (None) or 1.                  *)
(***************************************************************************)
EXTENDS Integers, Sequences, FiniteSets

\* ------------------------------------------------------------------ bounds

\* Requests (turns) a behaviour of Spec starts.
MaxTurns == 2
\* Requests a behaviour of SpecConc starts.
MaxConcTurns == 3
\* Requests that may be suspended at `await image.read()` at once under SpecConc.
MaxInFlight == 2

\* ------------------------------------------------------- program constants

\* len(clean_msg) > 10
ComplaintMinLen == 10
\* initialize_session: "sentiment_score": 5
DefaultSentiment == 5
\* SentimentIntentAnalyzer.analyze: max(0, min(10, score))
SentimentMin == 0
SentimentMax == 10

\* ------------------------------------------------------------ optionals

None == <<>>
Some(v) == <<v>>
Val(o) == o[1]

\* ------------------------------------------------------------------ text

Space == " "

\* The tokens r'\bXRD\d{4,6}\b' (re.IGNORECASE) matches.
OrderTokens == {"XRD12345", "xrd12345", "XRD22222", "XRD99999"}

\* The tokens r'[\w\.-]+@[\w\.-]+\.\w+' matches.
EmailTokens == {"a@b.com"}

\* str.upper() of an order token.
Upper(t) == IF t = "xrd12345" THEN "XRD12345" ELSE t

\* len() of a token.
TokLen(t) ==
  CASE t = Space -> 1
    [] t \in {"XRD12345", "xrd12345", "XRD22222", "XRD99999"} -> 8
    [] t = "a@b.com" -> 7
    [] t = "nobody" -> 6
    [] t = "bad" -> 3
    [] t = "I want a refund" -> 15
    [] t = "the box was crushed" -> 19
    [] OTHER -> 1

RECURSIVE TextLen(_)
\* len() of a text.
TextLen(s) == IF s = <<>> THEN 0 ELSE TokLen(Head(s)) + TextLen(Tail(s))

\* str.strip(): the text without its leading and trailing blanks.
Strip(s) ==
  LET keep == {i \in 1..Len(s) : s[i] # Space}
  IN  IF keep = {} THEN <<>>
      ELSE LET lo == CHOOSE i \in keep : \A j \in keep : i <= j
               hi == CHOOSE i \in keep : \A j \in keep : j <= i
           IN  SubSeq(s, lo, hi)

\* re.search(pattern, s): the first matching token, as an optional.
Search(tokens, s) ==
  LET hits == {i \in 1..Len(s) : s[i] \in tokens}
  IN  IF hits = {} THEN None
      ELSE Some(s[CHOOSE i \in hits : \A j \in hits : i <= j])

\* s.replace(tok, ""): every occurrence of exactly `tok` removed.
Replace(s, tok) == SelectSeq(s, LAMBDA t : t # tok)

\* The validation that accepts anything.
is_valid_email_any(opt) == TRUE

\* The validation reduced to a truthiness test.
is_valid_email_truthy(opt) == opt # None /\ Val(opt) # <<>>

\* RefundAgent._is_valid_email: falsy text is invalid, else a regex search.
is_valid_email(opt) ==
  IF opt = None \/ Val(opt) = <<>> THEN FALSE
  ELSE Search(EmailTokens, Val(opt)) # None

\* Python truthiness of an optional text (None and "" are falsy).
Truthy(opt) == opt # None /\ Val(opt) # <<>>

\* ------------------------------------------------------- order catalog

\* self.orders_db: the keys of data/orders.json's "orders".
Catalog == {"XRD12345", "XRD22222"}

\* The lookup with the catalog check lost.
InCatalogAlways(id) == TRUE

\* state["order_id"] in self.orders_db
InCatalog(id) == id \in Catalog

\* self.orders_db.get(order_id, {}) read through order_data.get('order_id', 'N/A').
OrderLabel(order_id) ==
  IF order_id # None /\ Val(order_id) \in Catalog THEN Val(order_id) ELSE "N/A"

\* ------------------------------------------------------- conversation state

Intents == {"", "refund", "quality_complaint", "general", "finalize_flow"}

\* _update_history: the one-entry list a node assigns to conversation_history.
update_history(role, content) == <<[role |-> role, content |-> content]>>

\* initialize_session: the state of a session seen for the first time.
initialize_session(session_id) ==
  [ session_id           |-> session_id,
    user_message         |-> <<>>,
    sentiment_score      |-> DefaultSentiment,
    intent               |-> "",
    language             |-> "en",
    order_id             |-> None,
    complaint            |-> None,
    image_path           |-> None,
    image_verdict        |-> None,
    refund_status        |-> "",
    email                |-> None,
    current_node         |-> "",
    response_message     |-> <<>>,
    needs_input          |-> TRUE,
    conversation_history |-> <<>> ]

\* The channels without the reducer: the returned history replaces the stored one.
ApplyWritesOverwrite(s, r) == r

\* AgentState.conversation_history is Annotated[List[dict], operator.add]: what a
\* node returns under that key is added to the channel's value; every other key
\* of the returned state replaces the channel's value.
ApplyWrites(s, r) ==
  [r EXCEPT !.conversation_history = s.conversation_history \o r.conversation_history]

\* ------------------------------------------------------------- responses

RespValidEmail == <<"Please provide a valid email address.">>
RespGeneral == <<"I can help with refunds or complaints. Do you have an Order ID?">>
RespOrderId == <<"Please provide your Order ID (e.g., XRD12345).">>
RespNotFound(id) == <<"Order '", id, "' not found in database.">>
RespIssue == <<"What is the issue with this order?">>
RespImage == <<"Please upload an image of the received items.">>
RespAnalyzing == <<"Analyzing...">>
RespSending == <<"Refund approved. Sending receipt...">>
RespApprovedAskEmail ==
  <<"Refund Approved! Please provide your email address for the receipt.">>
RespDenied(description) == <<"Refund Denied. Analysis: ", description, ".">>
RespStillNeedEmail == <<"I still need a valid email address.">>
RespSuccess(email) == <<"Success! Receipt sent to ">> \o email \o <<".">>

\* ---------------------------------------------------------- collaborators

\* What the text model may answer: no usable JSON (or any exception), or a JSON
\* object whose keys may be missing and whose score may be out of range.
ClassifierReplies ==
  { [ok |-> FALSE, intent |-> None, sentiment_score |-> None, language |-> None],
    [ok |-> TRUE, intent |-> Some("refund"), sentiment_score |-> Some(3),
     language |-> Some("en")],
    [ok |-> TRUE, intent |-> Some("quality_complaint"), sentiment_score |-> Some(14),
     language |-> Some("hi")],
    [ok |-> TRUE, intent |-> None, sentiment_score |-> Some(-2), language |-> None] }

Max(a, b) == IF a >= b THEN a ELSE b
Min(a, b) == IF a <= b THEN a ELSE b

\* SentimentIntentAnalyzer.analyze: defaults for missing keys, the score clamped,
\* and the fallback verdict on any failure.
analyze(reply) ==
  IF ~reply.ok
    THEN [intent |-> "general", sentiment_score |-> DefaultSentiment, language |-> "en"]
    ELSE [ intent |-> IF reply.intent = None THEN "general" ELSE Val(reply.intent),
           sentiment_score |->
             Max(SentimentMin,
                 Min(SentimentMax,
                     IF reply.sentiment_score = None THEN DefaultSentiment
                     ELSE Val(reply.sentiment_score))),
           language |-> IF reply.language = None THEN "en" ELSE Val(reply.language) ]

\* A verdict is a dict with the optional keys status and description.
Verdict(status, description) == [status |-> status, description |-> description]

\* Python truthiness of state.get("image_verdict"): None and {} are falsy.
VerdictTruthy(opt) ==
  opt # None /\ (Val(opt).status # None \/ Val(opt).description # None)

\* What can happen to one vision request: the image cannot be read, the request
\* fails or times out, the reply holds no braces, the braces hold no JSON, or the
\* reply holds a JSON object (any object: the code does not look at its keys).
VisionOutcomes ==
  { [kind |-> "unreadable", json |-> Verdict(None, None)],
    [kind |-> "request_failed", json |-> Verdict(None, None)],
    [kind |-> "no_braces", json |-> Verdict(None, None)],
    [kind |-> "bad_json", json |-> Verdict(None, None)],
    [kind |-> "json", json |-> Verdict(Some("defective"), Some("crushed box"))],
    [kind |-> "json", json |-> Verdict(Some("acceptable"), Some("looks edible"))],
    [kind |-> "json", json |-> Verdict(Some("rejected"), Some("not food"))],
    [kind |-> "json", json |-> Verdict(Some("DEFECTIVE"), None)],
    [kind |-> "json", json |-> Verdict(Some(""), None)],
    [kind |-> "json", json |-> Verdict(None, Some("unclear"))],
    [kind |-> "json", json |-> Verdict(None, None)] }

\* The analyzer without its fallback verdicts.
analyze_product_image_no_fallback(outcome) == outcome.json

\* VisionAnalyzer.analyze_product_image.
analyze_product_image(outcome) ==
  CASE outcome.kind = "unreadable" ->
         Verdict(Some("acceptable"), Some("Image upload failed"))
    [] outcome.kind = "no_braces" ->
         Verdict(Some("acceptable"), Some("AI Parse Error"))
    [] outcome.kind \in {"request_failed", "bad_json"} ->
         Verdict(Some("acceptable"), Some("Technical Verification Failed"))
    [] OTHER -> outcome.json

\* ReportGenerator.generate_receipt: the lines of the receipt that depend on its
\* arguments (the order's label and the verdict's description).
generate_receipt(order_id, verdict) ==
  << "REFUND CONFIRMATION", OrderLabel(order_id),
     IF verdict.description = None THEN "Issue verified by AI system"
     ELSE Val(verdict.description) >>

\* EmailSender.send_receipt(recipient, body, order_id): one call, by parameter.
send_receipt(recipient, body, order_id) ==
  [recipient |-> recipient, body |-> body, order_id |-> order_id]

\* ------------------------------------------------------------ the ledger

\* refunds.json: missing, unparsable, a JSON value that is no list, or a list.
LedgerFile(kind, entries) == [kind |-> kind, entries |-> entries]

\* The ledger read as empty whatever the file holds.
ReadLedgerEmpty(file) == <<>>

\* try: json.load(f)  except: refunds = []
ReadLedger(file) == IF file.kind \in {"list", "object"} THEN file.entries ELSE <<>>

\* refunds.append(...) raises on a JSON value that is no list.
AppendRaises(file) == file.kind = "object"

\* refunds.append(entry); json.dump(refunds, f)
WriteLedger(refunds, entry) == LedgerFile("list", Append(refunds, entry))

\* ------------------------------------------------------------- the nodes
\* A node maps the state it is given to the state it returns; ApplyWrites then
\* folds the returned state into the channels.

\* The branches without the flow-continuity test: a claim in collection is
\* classified again.
intent_branch_no_continuity(s) ==
  LET user_msg == Strip(s.user_message)
  IN  IF s.refund_status = "approved" /\ Search(EmailTokens, user_msg) # None
        THEN "capture"
      ELSE IF s.refund_status = "approved" /\ ~(s.email # None /\ Val(s.email) # <<>>)
        THEN "reprompt"
      ELSE "classify"

\* The branch intent_reviewer_node takes: "capture" (approved, an e-mail in the
\* message), "reprompt" (approved, none in the message, none bound), "continue"
\* (a claim in collection) or "classify".
intent_branch(s) ==
  LET user_msg == Strip(s.user_message)
  IN  IF s.refund_status = "approved" /\ Search(EmailTokens, user_msg) # None
        THEN "capture"
      ELSE IF s.refund_status = "approved" /\ ~Truthy(s.email)
        THEN "reprompt"
      ELSE IF s.intent \in {"refund", "quality_complaint"} /\ s.refund_status = ""
        THEN "continue"
      ELSE "classify"

intent_reviewer_node(s, reply) ==
  LET user_msg == Strip(s.user_message)
      s1 == [s EXCEPT !.current_node = "intent_reviewer",
                      !.conversation_history = update_history("user", user_msg)]
      branch == intent_branch(s1)
      analysis == analyze(reply)
      s2 == [s1 EXCEPT !.sentiment_score = analysis.sentiment_score,
                       !.intent = analysis.intent,
                       !.language = analysis.language]
  IN  CASE branch = "capture" ->
             [s1 EXCEPT !.email = Some(<<Val(Search(EmailTokens, user_msg))>>),
                        !.intent = "finalize_flow"]
        [] branch = "reprompt" ->
             [s1 EXCEPT !.response_message = RespValidEmail,
                        !.conversation_history =
                           update_history("assistant", RespValidEmail),
                        !.needs_input = TRUE]
        [] branch = "continue" -> [s1 EXCEPT !.needs_input = FALSE]
        [] OTHER ->
             IF analysis.intent = "general"
               THEN [s2 EXCEPT !.response_message = RespGeneral,
                               !.conversation_history =
                                  update_history("assistant", RespGeneral),
                               !.needs_input = FALSE]
               ELSE [s2 EXCEPT !.needs_input = TRUE]

\* The router without its "general" outcome.
route_after_intent_no_general(s) ==
  IF s.intent = "finalize_flow" THEN "finalize" ELSE "continue"

route_after_intent(s) ==
  IF s.intent = "finalize_flow" THEN "finalize"
  ELSE IF s.intent = "general" THEN "general"
  ELSE "continue"

\* A pause that also forgets the order.
PromptClearsOrder(s, msg) ==
  [s EXCEPT !.response_message = msg,
            !.conversation_history = update_history("assistant", msg),
            !.needs_input = TRUE,
            !.order_id = None]

\* A node's pause: the prompt is the response and the one history entry returned.
Prompt(s, msg) ==
  [s EXCEPT !.response_message = msg,
            !.conversation_history = update_history("assistant", msg),
            !.needs_input = TRUE]

\* The complaint bound from any long enough message, bound already or not.
BindsComplaintAlways(s, clean_msg) == TextLen(clean_msg) > ComplaintMinLen

\* if not state.get("complaint"): ... if len(clean_msg) > 10: the Collector binds
\* clean_msg as the complaint.
BindsComplaint(s, clean_msg) ==
  ~Truthy(s.complaint) /\ TextLen(clean_msg) > ComplaintMinLen

collector_node(s) ==
  LET user_msg == s.user_message
      id_match == Search(OrderTokens, user_msg)
      s1 == [s EXCEPT !.current_node = "collector",
                      !.order_id = IF id_match # None
                                     THEN Some(Upper(Val(id_match))) ELSE @]
  IN  IF s1.order_id = None THEN Prompt(s1, RespOrderId)
      ELSE IF ~InCatalog(Val(s1.order_id))
        THEN [Prompt(s1, RespNotFound(Val(s1.order_id))) EXCEPT !.order_id = None]
      ELSE
        LET clean_msg == Strip(Replace(user_msg, Val(s1.order_id)))
            bind == BindsComplaint(s1, clean_msg)
            s2 == IF bind THEN [s1 EXCEPT !.complaint = Some(clean_msg)] ELSE s1
        IN  IF ~Truthy(s1.complaint) /\ ~bind THEN Prompt(s1, RespIssue)
            ELSE IF s2.image_path = None THEN Prompt(s2, RespImage)
            ELSE [s2 EXCEPT !.needs_input = FALSE,
                            !.response_message = RespAnalyzing]

\* The router that never pauses.
route_after_collector_always_ready(s) == "ready"

route_after_collector(s) == IF s.needs_input THEN "need_input" ELSE "ready"

\* Whether image_analyzer_node calls the vision collaborator.
InvokesVision(s) == ~VerdictTruthy(s.image_verdict)

image_analyzer_node(s, outcome) ==
  IF ~InvokesVision(s) THEN s
  ELSE [s EXCEPT !.current_node = "image_analyzer",
                 !.image_verdict = Some(analyze_product_image(outcome))]

\* The comparison made case-insensitive.
ApprovesAnyCase(verdict) == verdict.status \in {Some("defective"), Some("DEFECTIVE")}

\* verdict.get("status") == "defective"
Approves(verdict) == verdict.status = Some("defective")

decision_node(s) ==
  LET verdict == Val(s.image_verdict)
      s1 == [s EXCEPT !.current_node = "decision"]
  IN  IF Approves(verdict)
        THEN LET s2 == [s1 EXCEPT !.refund_status = "approved"]
             IN  IF Truthy(s2.email) /\ is_valid_email(s2.email)
                   THEN [s2 EXCEPT !.response_message = RespSending,
                                   !.needs_input = FALSE]
                   ELSE Prompt(s2, RespApprovedAskEmail)
        ELSE LET msg == RespDenied(IF verdict.description = None
                                     THEN "Product acceptable"
                                     ELSE Val(verdict.description))
             IN  [s1 EXCEPT !.refund_status = "denied",
                            !.response_message = msg,
                            !.conversation_history = update_history("assistant", msg),
                            !.needs_input = FALSE]

\* The router without its test of refund_status: any claim without an e-mail waits.
route_after_decision_email_only(s) ==
  IF ~Truthy(s.email) THEN "ask_email" ELSE "finalize"

\* The router that always finalizes.
route_after_decision_always(s) == "finalize"

route_after_decision(s) ==
  IF s.refund_status = "approved" /\ ~Truthy(s.email) THEN "ask_email" ELSE "finalize"

\* str(state['order_id']) inside an f-string.
IdStr(order_id) == IF order_id = None THEN "None" ELSE Val(order_id)

\* The entry finalizer_node appends to refunds.json.
LedgerEntry(s) ==
  [ session_id |-> s.session_id, order_id |-> s.order_id,
    status |-> s.refund_status, email |-> s.email ]

\* The call finalizer_node makes on an approved claim:
\* self.email_service.send_receipt(state["email"], f"Refund: {order_id}", receipt_body)
ReceiptCall(s) ==
  send_receipt(Val(s.email), <<"Refund: ", IdStr(s.order_id)>>,
               generate_receipt(s.order_id, Val(s.image_verdict)))

\* ----------------------------------------------------------- one walk
\* A walk carries the channels (st), the files and collaborators it acts on and
\* what it did: the nodes it ran, the vision and classifier calls it made,
\* whether it raised, the entries it appended to the ledger.

StartWalk(s, ledger, sent) ==
  [ st |-> s, ledger |-> ledger, sent |-> sent, path |-> <<>>,
    vision |-> 0, classified |-> FALSE, raised |-> FALSE, logged |-> <<>> ]

RunIntent(w, reply) ==
  [w EXCEPT !.st = ApplyWrites(w.st, intent_reviewer_node(w.st, reply)),
            !.path = Append(@, "intent_reviewer"),
            !.classified =
               intent_branch(w.st) = "classify"]

RunCollector(w) ==
  [w EXCEPT !.st = ApplyWrites(w.st, collector_node(w.st)),
            !.path = Append(@, "collector")]

RunImage(w, outcome) ==
  [w EXCEPT !.st = ApplyWrites(w.st, image_analyzer_node(w.st, outcome)),
            !.path = Append(@, "image_analyzer"),
            !.vision = IF InvokesVision(w.st) THEN @ + 1 ELSE @]

RunDecision(w) ==
  [w EXCEPT !.st = ApplyWrites(w.st, decision_node(w.st)),
            !.path = Append(@, "decision")]

\* finalizer_node, with the receipt it sends and the ledger file it rewrites.
finalizer_node(w) ==
  LET s == w.st
      approved == s.refund_status = "approved"
      w0 == [w EXCEPT !.path = Append(@, "finalizer")]
  IN  IF approved /\ ~is_valid_email(s.email)
        THEN [w0 EXCEPT !.st = ApplyWrites(s, Prompt(s, RespStillNeedEmail))]
      ELSE
        LET msg == RespSuccess(Val(s.email))
            s1 == IF approved
                    THEN [s EXCEPT !.response_message = msg,
                                   !.conversation_history =
                                      update_history("assistant", msg)]
                    ELSE s
            w1 == IF approved THEN [w0 EXCEPT !.sent = Append(@, ReceiptCall(s))]
                  ELSE w0
        IN  IF AppendRaises(w.ledger) THEN [w1 EXCEPT !.raised = TRUE]
            ELSE [w1 EXCEPT
                    !.ledger = WriteLedger(ReadLedger(w.ledger), LedgerEntry(s)),
                    !.logged = Append(@, LedgerEntry(s)),
                    !.st = ApplyWrites(s, [s1 EXCEPT !.needs_input = FALSE])]

\* The "ask_email" outcome mapped to the Collector instead of END.
AfterDecisionRevisit(w) ==
  IF route_after_decision(w.st) = "ask_email" THEN RunCollector(w)
  ELSE finalizer_node(w)

\* _build_graph: the entry point, the conditional edges and the fixed edges.
AfterDecision(w) ==
  IF route_after_decision(w.st) = "ask_email" THEN w ELSE finalizer_node(w)

\* The graph without the edge from Image Analysis to Decision.
AfterCollectorStopsAtImage(w, outcome) ==
  IF route_after_collector(w.st) = "need_input" THEN w ELSE RunImage(w, outcome)

AfterCollector(w, outcome) ==
  IF route_after_collector(w.st) = "need_input" THEN w
  ELSE AfterDecision(RunDecision(RunImage(w, outcome)))

AfterIntent(w, outcome) ==
  LET route == route_after_intent(w.st)
  IN  CASE route = "general" -> w
        [] route = "finalize" -> finalizer_node(w)
        [] OTHER -> AfterCollector(RunCollector(w), outcome)

\* agent.graph.invoke(state)
Invoke(s, ledger, sent, reply, outcome) ==
  AfterIntent(RunIntent(StartWalk(s, ledger, sent), reply), outcome)

\* ------------------------------------------------------- the chat handler

VARIABLES
  sessions,   \* main.sessions: session_id -> the state persisted for it
  ledger,     \* the file refunds.json
  sent,       \* the calls made to EmailSender.send_receipt, in order
  inflight,   \* the requests suspended at `await image.read()`
  turns,      \* requests started so far
  appended,   \* history variable: the entries the Finalizers appended, in order
  last        \* history variable: the request that completed last: what it read
              \* (pre), what was stored when it wrote (cur), what the walk did,
              \* what the classifier and the vision service answered (if
              \* consulted), the order each session had bound when its verdict
              \* was last computed (vorder), and
              \* how many other requests completed while it was suspended

vars == <<sessions, ledger, sent, inflight, turns, appended, last>>

\* The inbound units of a turn: optional message text, optional e-mail field,
\* optional image.
Unit(message, email, image) == [message |-> message, email |-> email, image |-> image]

MsgRefund == <<Space, "I want a refund">>
MsgClaim == <<"XRD12345", Space, "the box was crushed">>
MsgLowerId == <<"xrd12345", Space, "bad">>
MsgOtherOrder == <<"XRD22222", Space, "bad">>
MsgUnknownOrder == <<"XRD99999", Space, "the box was crushed">>
MsgEmail == <<"a@b.com", Space>>

Units ==
  { Unit(Some(MsgRefund), None, FALSE),
    Unit(Some(MsgClaim), None, FALSE),
    Unit(Some(MsgClaim), None, TRUE),
    Unit(Some(MsgClaim), Some(<<"a@b.com">>), TRUE),
    Unit(Some(MsgLowerId), None, FALSE),
    Unit(Some(MsgOtherOrder), None, FALSE),
    Unit(Some(MsgUnknownOrder), None, FALSE),
    Unit(Some(MsgEmail), None, FALSE),
    Unit(None, None, TRUE),
    Unit(None, Some(<<Space, "a@b.com">>), FALSE),
    Unit(None, Some(<<"nobody">>), FALSE) }

ConcUnits ==
  { Unit(Some(MsgClaim), None, FALSE),
    Unit(Some(MsgClaim), None, TRUE) }

SeqSessions == {"s1"}
ConcSessions == {"s1", "s2"}

\* sessions[session_id] after `if session_id not in sessions: ... initialize_session`.
GetOrCreate(store, sid) ==
  IF sid \in DOMAIN store THEN store
  ELSE [x \in DOMAIN store \cup {sid} |->
          IF x = sid THEN initialize_session(sid) ELSE store[x]]

\* chat, up to the image: the copy of the stored state with the message (and the
\* order identifier found in it) and the e-mail field merged in.
Merge(state, u) ==
  LET xrd_match == Search(OrderTokens, Val(u.message))
      s1 == IF Truthy(u.message)
              THEN [state EXCEPT
                      !.user_message = Strip(Val(u.message)),
                      !.order_id = IF xrd_match # None
                                     THEN Some(Upper(Val(xrd_match))) ELSE @]
              ELSE state
  IN  IF Truthy(u.email) THEN [s1 EXCEPT !.email = Some(Strip(Val(u.email)))] ELSE s1

\* chat, the image: state["image_path"] = the path of the saved upload, which is
\* unique to the request.
SaveImage(state, rid) == [state EXCEPT !.image_path = Some(rid)]

\* The collaborator answers a walk on `state` consults: the classifier's only if
\* Intent Review classifies, the vision service's only if Image Analysis calls it.
NoReply == CHOOSE r \in ClassifierReplies : ~r.ok
NoOutcome == CHOOSE o \in VisionOutcomes : o.kind = "unreadable"
RepliesFor(state, replies) ==
  IF intent_branch(state) = "classify" THEN replies ELSE {NoReply}
OutcomesFor(state, reply, outcomes) ==
  IF Invoke(state, LedgerFile("missing", <<>>), <<>>, reply, NoOutcome).vision > 0
    THEN outcomes ELSE {NoOutcome}

\* The collaborator answers drawn under SpecConc.
ConcReplies == {r \in ClassifierReplies : r.intent \in {None, Some("refund")}}
ConcOutcomes ==
  {o \in VisionOutcomes :
     o.kind = "unreadable" \/ o.json.status = Some("defective")}

\* The result stored even when the walk raised.
PersistAlways(store, sid, w) == [store EXCEPT ![sid] = w.st]

\* sessions[session_id] = result, which a raising agent.graph.invoke(state) skips:
\* the handler's except clause turns the exception into an HTTP 500.
Persist(store, sid, w) == IF w.raised THEN store ELSE [store EXCEPT ![sid] = w.st]

\* chat, from agent.graph.invoke to the end: the walk on `state`, the result
\* stored unless the walk raised.
Complete(rid, sid, u, pre, overlapped, state, reply, outcome) ==
  LET w == Invoke(state, ledger, sent, reply, outcome)
      store == GetOrCreate(sessions, sid)
      cur == store[sid]
      again == IF u.image THEN SaveImage(Merge(cur, u), rid) ELSE Merge(cur, u)
  IN  /\ sessions' = Persist(store, sid, w)
      /\ ledger' = w.ledger
      /\ sent' = w.sent
      /\ appended' = appended \o w.logged
      /\ last' = [ rid |-> rid, sid |-> sid, unit |-> u, pre |-> pre, cur |-> cur,
                   serial |-> IF cur = pre THEN w.st
                              ELSE Invoke(again, ledger, sent, reply, outcome).st,
                   path |-> w.path, vision |-> w.vision,
                   classified |-> w.classified, reply |-> reply,
                   outcome |-> outcome,
                   vorder |-> IF w.vision > 0
                                THEN [last.vorder EXCEPT ![sid] = w.st.order_id]
                                ELSE last.vorder,
                   raised |-> w.raised,
                   ledger0 |-> ledger, sent0 |-> sent,
                   overlapped |-> overlapped ]

\* A request without an image: nothing suspends it.
Chat(sid, u, overlap, maxTurns, replies, outcomes) ==
  /\ turns < maxTurns
  /\ Cardinality(inflight) <= overlap
  /\ ~u.image
  /\ LET pre == GetOrCreate(sessions, sid)[sid]
         state == Merge(pre, u)
     IN  \E reply \in RepliesFor(state, replies) :
           \E outcome \in OutcomesFor(state, reply, outcomes) :
             Complete(turns + 1, sid, u, pre, 0, state, reply, outcome)
  /\ turns' = turns + 1
  /\ UNCHANGED inflight

\* A request with an image, up to `content = await image.read()`. Its epoch is
\* the number of requests completed when it starts (those started and not in
\* flight).
ChatBegin(sid, u, overlap, maxTurns) ==
  /\ turns < maxTurns
  /\ Cardinality(inflight) <= overlap
  /\ u.image
  /\ LET store == GetOrCreate(sessions, sid)
     IN  /\ sessions' = store
         /\ inflight' = inflight \cup
              {[rid |-> turns + 1, sid |-> sid, unit |-> u, pre |-> store[sid],
                epoch |-> turns - Cardinality(inflight),
                state |-> Merge(store[sid], u)]}
  /\ turns' = turns + 1
  /\ UNCHANGED <<ledger, sent, appended, last>>

\* The same request, from the await on.
ChatResume(req, replies, outcomes) ==
  /\ req \in inflight
  /\ inflight' = inflight \ {req}
  /\ LET state == SaveImage(req.state, req.rid)
     IN  \E reply \in RepliesFor(state, replies) :
           \E outcome \in OutcomesFor(state, reply, outcomes) :
             Complete(req.rid, req.sid, req.unit, req.pre,
                      (turns - Cardinality(inflight)) - req.epoch,
                      state, reply, outcome)
  /\ UNCHANGED turns

NoRequest ==
  [ rid |-> 0, sid |-> "", unit |-> Unit(None, None, FALSE),
    pre |-> initialize_session(""), cur |-> initialize_session(""),
    serial |-> initialize_session(""), path |-> <<>>, vision |-> 0,
    classified |-> FALSE, reply |-> NoReply, outcome |-> NoOutcome,
    vorder |-> [x \in ConcSessions |-> None], raised |-> FALSE,
    ledger0 |-> LedgerFile("missing", <<>>), sent0 |-> <<>>, overlapped |-> 0 ]

Init ==
  /\ sessions = [x \in {} |-> initialize_session(x)]
  /\ ledger = LedgerFile("missing", <<>>)
  /\ sent = <<>>
  /\ inflight = {}
  /\ turns = 0
  /\ appended = <<>>
  /\ last = NoRequest

\* Turns one after another: a request starts when none is in flight.
Next ==
  \/ \E sid \in SeqSessions, u \in Units :
        Chat(sid, u, 0, MaxTurns, ClassifierReplies, VisionOutcomes)
  \/ \E sid \in SeqSessions, u \in Units : ChatBegin(sid, u, 0, MaxTurns)
  \/ \E req \in inflight : ChatResume(req, ClassifierReplies, VisionOutcomes)

Spec == Init /\ [][Next]_vars

\* Requests of several clients: a request may start while others are suspended.
NextConc ==
  \/ \E sid \in ConcSessions, u \in ConcUnits :
        Chat(sid, u, MaxInFlight - 1, MaxConcTurns, ConcReplies, ConcOutcomes)
  \/ \E sid \in ConcSessions, u \in ConcUnits :
        ChatBegin(sid, u, MaxInFlight - 1, MaxConcTurns)
  \/ \E req \in inflight : ChatResume(req, ConcReplies, ConcOutcomes)

SpecConc == Init /\ [][NextConc]_vars

\* What refunds.json may hold when the process starts: nothing (no file), text
\* that is no JSON, a JSON object, an empty list, or the entry of an earlier run.
LedgerFiles ==
  { LedgerFile("missing", <<>>), LedgerFile("corrupt", <<>>),
    LedgerFile("object", <<>>), LedgerFile("list", <<>>),
    LedgerFile("list", <<[session_id |-> "s0", order_id |-> Some("XRD22222"),
                          status |-> "denied", email |-> None]>>) }

StoreUnits ==
  { Unit(Some(MsgRefund), None, FALSE),
    Unit(Some(MsgClaim), None, FALSE),
    Unit(Some(MsgClaim), None, TRUE),
    Unit(Some(MsgEmail), None, FALSE) }

\* The vision answers drawn under SpecStore.
StoreOutcomes ==
  {o \in VisionOutcomes :
     o.kind = "unreadable" \/ o.json.status \in {Some("defective"), Some("acceptable")}}

InitStore ==
  /\ sessions = [x \in {} |-> initialize_session(x)]
  /\ ledger \in LedgerFiles
  /\ sent = <<>>
  /\ inflight = {}
  /\ turns = 0
  /\ appended = <<>>
  /\ last = NoRequest

\* Turns one after another on a ledger file found in any condition.
NextStore ==
  \/ \E sid \in SeqSessions, u \in StoreUnits :
        Chat(sid, u, 0, MaxTurns, ConcReplies, StoreOutcomes)
  \/ \E sid \in SeqSessions, u \in StoreUnits : ChatBegin(sid, u, 0, MaxTurns)
  \/ \E req \in inflight : ChatResume(req, ConcReplies, StoreOutcomes)

SpecStore == InitStore /\ [][NextStore]_vars

\* ------------------------------------------------------------- properties

\* A request has completed; LastSt is the state it stored.
Done == last.rid # 0
LastSt == sessions[last.sid]
Ran(node) == \E i \in DOMAIN last.path : last.path[i] = node
IsPrefix(a, b) == Len(a) <= Len(b) /\ SubSeq(b, 1, Len(a)) = a
Final == {"approved", "denied"}

\* C1: once refund_status is approved or denied at the end of a walk, the next
\* walk of the session ends with the same value.
C1_StatusNeverChanges ==
  (Done /\ last.pre.refund_status \in Final)
    => LastSt.refund_status = last.pre.refund_status

\* C2: whenever Decision ran, refund_status is approved if and only if the
\* verdict's status is exactly "defective", and it is denied otherwise.
C2_ApprovedIffDefective ==
  (Done /\ Ran("decision")) =>
    LET status == Val(LastSt.image_verdict).status
    IN  /\ (LastSt.refund_status = "approved") <=> (status = Some("defective"))
        /\ (status # Some("defective")) => (LastSt.refund_status = "denied")

C2_Witness ==
  /\ Done /\ Ran("decision")
  /\ Val(LastSt.image_verdict).status = Some("DEFECTIVE")
  /\ LastSt.refund_status = "denied"

\* C3: the history stored after a walk has the history stored before it as a
\* prefix.
C3_HistoryPrefix ==
  Done => IsPrefix(last.pre.conversation_history, LastSt.conversation_history)

C3_Witness ==
  /\ Done
  /\ Len(last.pre.conversation_history) > 0
  /\ Len(LastSt.conversation_history) > Len(last.pre.conversation_history)

\* C4: the ledger holds at most one entry per session_id.
C4_OneEntryPerSession ==
  \A i, j \in DOMAIN ledger.entries :
    i # j => ledger.entries[i].session_id # ledger.entries[j].session_id

\* C5: the state a request stores is the state the walk gives on what was stored
\* when it wrote: requests of one session take effect one after the other.
C5_NoInterleaving == (Done /\ ~last.raised) => LastSt = last.serial

LookedUp ==
  LET id_match == Search(OrderTokens, LastSt.user_message)
  IN  IF id_match # None THEN Some(Upper(Val(id_match))) ELSE last.pre.order_id

\* C7: a Collector that looked up an identifier absent from the catalog cleared
\* order_id, set needs_input and ended the walk; Image Analysis and Decision ran
\* only with order_id naming a catalog record.
C7_UnknownOrderHalts ==
  Done =>
    /\ (Ran("collector") /\ LookedUp # None /\ Val(LookedUp) \notin Catalog) =>
         /\ LastSt.order_id = None
         /\ LastSt.needs_input
         /\ last.path[Len(last.path)] = "collector"
    /\ (Ran("image_analyzer") \/ Ran("decision")) =>
         (LastSt.order_id # None /\ Val(LastSt.order_id) \in Catalog)

C7_Witness ==
  /\ Done /\ Ran("collector")
  /\ last.pre.order_id = Some("XRD12345") /\ last.pre.image_path # None
  /\ LookedUp = Some("XRD99999")
  /\ LastSt.order_id = None

\* C8: a walk that starts with image_verdict bound does not call the vision
\* collaborator and leaves the verdict as it was.
C8_VerdictMemoized ==
  (Done /\ last.pre.image_verdict # None) =>
    (last.vision = 0 /\ LastSt.image_verdict = last.pre.image_verdict)

\* C9: a walk whose Decision saw a verdict other than "defective" ends denied,
\* with needs_input false and the denial message, having appended exactly one
\* ledger entry (status denied, this session) and sent no receipt.
C9_DenialFinalizes ==
  (Done /\ Ran("decision") /\ Val(LastSt.image_verdict).status # Some("defective")) =>
    /\ LastSt.refund_status = "denied"
    /\ ~LastSt.needs_input
    /\ LastSt.response_message[1] = "Refund Denied. Analysis: "
    /\ ledger.entries =
         Append(last.ledger0.entries,
                [session_id |-> last.sid, order_id |-> LastSt.order_id,
                 status |-> "denied", email |-> LastSt.email])
    /\ sent = last.sent0

C9_Witness ==
  /\ Done /\ Ran("decision")
  /\ Val(LastSt.image_verdict).status = Some("acceptable")
  /\ LastSt.refund_status = "denied"
  /\ Len(ledger.entries) = Len(last.ledger0.entries) + 1

\* C10: a walk whose Decision saw a "defective" verdict with no e-mail bound ends
\* at Decision, approved, with needs_input true and the request for the e-mail
\* address; the ledger and the receipts sent are as before the walk.
C10_ApprovedAsksEmail ==
  (Done /\ Ran("decision") /\ Val(LastSt.image_verdict).status = Some("defective")
        /\ LastSt.email = None) =>
    /\ LastSt.refund_status = "approved"
    /\ LastSt.needs_input
    /\ LastSt.response_message = RespApprovedAskEmail
    /\ last.path[Len(last.path)] = "decision"
    /\ ledger = last.ledger0
    /\ sent = last.sent0

C10_Witness ==
  /\ Done /\ last.unit.image /\ Ran("decision")
  /\ Val(LastSt.image_verdict) = Verdict(Some("defective"), Some("crushed box"))
  /\ LastSt.email = None
  /\ LastSt.refund_status = "approved" /\ LastSt.needs_input

\* The mailbox pattern found in an optional text.
HasMailbox(opt) == opt # None /\ Search(EmailTokens, Val(opt)) # None

\* The session is approved and paused without a usable e-mail address.
AwaitingEmail(s) == s.refund_status = "approved" /\ s.needs_input /\ ~HasMailbox(s.email)

\* The turn carries a mailbox, in its text or in its e-mail field.
SuppliesEmail(u) == HasMailbox(u.message) \/ HasMailbox(u.email)

LastNode == last.path[Len(last.path)]

\* C11: a turn that supplies a valid e-mail address to a session that is approved
\* and awaiting one ends in the Finalizer: the address is bound, one receipt went
\* to it, one ledger entry with status approved was appended, needs_input is false.
C11_EmailFinalizes ==
  (Done /\ AwaitingEmail(last.pre) /\ SuppliesEmail(last.unit)) =>
    /\ LastNode = "finalizer"
    /\ HasMailbox(LastSt.email)
    /\ Len(sent) = Len(last.sent0) + 1
    /\ sent[Len(sent)].recipient = Val(LastSt.email)
    /\ ledger.entries =
         Append(last.ledger0.entries,
                [session_id |-> last.sid, order_id |-> LastSt.order_id,
                 status |-> "approved", email |-> LastSt.email])
    /\ ~LastSt.needs_input

\* The edges of the graph between stages.
StageEdges ==
  { <<"intent_reviewer", "finalizer">>, <<"intent_reviewer", "collector">>,
    <<"collector", "image_analyzer">>, <<"image_analyzer", "decision">>,
    <<"decision", "finalizer">> }

\* The stages a walk may halt after.
HaltStages == {"intent_reviewer", "collector", "decision", "finalizer"}

\* C12: a walk starts at Intent Review, follows only the edges of the graph,
\* halts after a stage that may halt, visits no stage twice and runs at most
\* five stages.
C12_WalkBounded ==
  Done =>
    /\ Len(last.path) \in 1..5
    /\ last.path[1] = "intent_reviewer"
    /\ \A i \in 1..(Len(last.path) - 1) :
         <<last.path[i], last.path[i + 1]>> \in StageEdges
    /\ \A i, j \in DOMAIN last.path : i # j => last.path[i] # last.path[j]
    /\ LastNode \in HaltStages

C12_Witness ==
  /\ Done
  /\ last.path =
       <<"intent_reviewer", "collector", "image_analyzer", "decision", "finalizer">>
  /\ last.pre.refund_status = "denied"

\* C13: after a walk that raised, the state stored for the session is the state
\* the turn started from: no history entry gained, no field changed.
C13_FailedWalkKeepsState ==
  (Done /\ last.raised) => sessions[last.sid] = last.pre

C13_Witness ==
  /\ Done /\ last.raised /\ Ran("finalizer")
  /\ Len(last.pre.conversation_history) > 0
  /\ sessions[last.sid] = last.pre

\* C14: a Finalizer that ran on an approved claim whose bound e-mail is absent or
\* holds no mailbox asked again for the address and set needs_input; the receipts
\* sent and the ledger are as before the walk.
C14_FinalizerRevalidates ==
  (Done /\ Ran("finalizer") /\ LastSt.refund_status = "approved"
        /\ ~HasMailbox(LastSt.email)) =>
    /\ LastSt.response_message = RespStillNeedEmail
    /\ LastSt.needs_input
    /\ sent = last.sent0
    /\ ledger = last.ledger0

C14_Witness ==
  /\ Done /\ Ran("finalizer") /\ LastSt.refund_status = "approved"
  /\ LastSt.email = Some(<<"nobody">>)
  /\ LastSt.response_message = RespStillNeedEmail

\* C15: when Intent Review starts on an approved claim with no mailbox in the
\* message and no e-mail bound, the walk is Intent Review alone and ends with
\* needs_input true and the request for a valid e-mail address as the response.
C15_RepromptHalts ==
  (Done /\ last.pre.refund_status = "approved" /\ ~HasMailbox(Some(LastSt.user_message))
        /\ ~Truthy(last.pre.email) /\ ~Truthy(last.unit.email)) =>
    /\ last.path = <<"intent_reviewer">>
    /\ LastSt.needs_input
    /\ LastSt.response_message = RespValidEmail

\* C16: a walk whose Decision approved with no mailbox in the bound e-mail ends
\* at Decision with needs_input true and the request for the address; the
\* Finalizer follows an approving Decision only with a mailbox bound.
C16_DecisionNeedsValidEmail ==
  (Done /\ Ran("decision") /\ LastSt.refund_status = "approved"
        /\ ~HasMailbox(LastSt.email)) =>
    /\ LastNode = "decision"
    /\ LastSt.needs_input
    /\ LastSt.response_message = RespApprovedAskEmail

\* The history entries the last walk added.
Gained ==
  { LastSt.conversation_history[i] :
      i \in (Len(last.pre.conversation_history) + 1)..Len(LastSt.conversation_history) }

\* C17: after any walk the history gained the entry {role: user, content: the
\* message the walk processed}.
C17_UserMessageRecorded ==
  Done => [role |-> "user", content |-> LastSt.user_message] \in Gained

\* The three prerequisites as the Collector of the last walk left them (no later
\* stage assigns them).
Prerequisites ==
  /\ LastSt.order_id # None /\ Val(LastSt.order_id) \in Catalog
  /\ LastSt.complaint # None
  /\ LastSt.image_path # None

\* The prompt for the first prerequisite the Collector of the last walk missed.
FirstMissingPrompt ==
  IF LastSt.order_id = None
    THEN IF LookedUp = None THEN RespOrderId ELSE RespNotFound(Val(LookedUp))
  ELSE IF LastSt.complaint = None THEN RespIssue
  ELSE RespImage

\* C18: the Collector hands over to Image Analysis exactly when order_id (a
\* catalog record), complaint and image_path are all bound; otherwise the walk
\* ends there with needs_input true and the prompt for the first one missing, in
\* the order identifier, complaint, image. A message with a catalog identifier
\* and a long enough complaint, no image, binds both and asks for the image.
C18_CollectorOrder ==
  (Done /\ Ran("collector")) =>
    /\ Ran("image_analyzer") <=> Prerequisites
    /\ ~Prerequisites =>
         /\ LastNode = "collector"
         /\ LastSt.needs_input
         /\ LastSt.response_message = FirstMissingPrompt
    /\ (last.unit = Unit(Some(MsgClaim), None, FALSE)
          /\ last.pre.complaint = None /\ last.pre.image_path = None) =>
         /\ LastSt.order_id = Some("XRD12345")
         /\ LastSt.complaint = Some(<<"the box was crushed">>)
         /\ LastSt.needs_input
         /\ LastSt.response_message = RespImage

C18_Witness ==
  /\ Done /\ Ran("collector")
  /\ last.unit = Unit(Some(MsgClaim), None, FALSE)
  /\ last.pre.order_id = None /\ last.pre.complaint = None /\ last.pre.image_path = None
  /\ LastSt.complaint = Some(<<"the box was crushed">>)
  /\ LastSt.response_message = RespImage

\* A claim is in collection: the flow-continuity test of Intent Review.
MidCollection(s) == s.intent \in {"refund", "quality_complaint"} /\ s.refund_status = ""

\* C19: with no claim in collection and the refund not approved, Intent Review
\* binds intent, sentiment_score and language from the classifier's verdict; a
\* general intent ends the walk there with the generic help prompt, any other
\* goes on to the Collector, and on a fresh session a message without an order
\* identifier then ends with needs_input true and the prompt for the order ID.
C19_ClassifiesAndRoutes ==
  (Done /\ ~MidCollection(last.pre) /\ last.pre.refund_status # "approved") =>
    LET analysis == analyze(last.reply)
    IN  /\ last.classified
        /\ LastSt.intent = analysis.intent
        /\ LastSt.sentiment_score = analysis.sentiment_score
        /\ LastSt.language = analysis.language
        /\ analysis.intent = "general" =>
             /\ last.path = <<"intent_reviewer">>
             /\ LastSt.response_message = RespGeneral
        /\ analysis.intent # "general" =>
             /\ Len(last.path) >= 2 /\ last.path[2] = "collector"
             /\ (last.pre = initialize_session(last.sid)
                   /\ Search(OrderTokens, LastSt.user_message) = None) =>
                  /\ LastNode = "collector"
                  /\ LastSt.needs_input
                  /\ LastSt.response_message = RespOrderId

C19_Witness ==
  /\ Done /\ last.classified
  /\ last.pre = initialize_session(last.sid)
  /\ last.unit = Unit(Some(MsgRefund), None, FALSE)
  /\ LastSt.intent = "refund" /\ LastSt.sentiment_score = 3
  /\ LastSt.needs_input /\ LastSt.response_message = RespOrderId

\* C20: on a claim in collection Intent Review does not consult the classifier
\* and leaves intent, sentiment_score and language as they were; the Collector
\* runs next.
C20_NoReclassification ==
  (Done /\ MidCollection(last.pre)) =>
    /\ ~last.classified
    /\ LastSt.intent = last.pre.intent
    /\ LastSt.sentiment_score = last.pre.sentiment_score
    /\ LastSt.language = last.pre.language
    /\ Len(last.path) >= 2 /\ last.path[2] = "collector"

C20_Witness ==
  /\ Done /\ MidCollection(last.pre) /\ ~last.classified
  /\ last.pre.intent = "quality_complaint"
  /\ LastSt.language = "hi" /\ LastSt.sentiment_score = SentimentMax
  /\ Ran("collector")

\* The text the last walk processed with the bound identifier removed in whatever
\* casing it was written, stripped.
Remainder ==
  Strip(SelectSeq(LastSt.user_message, LAMBDA t : Upper(t) # Val(LastSt.order_id)))

\* C21: a Collector that found the order and no complaint bound binds the message
\* without the identifier (in any casing) as the complaint exactly when that
\* remainder is longer than 10 characters; otherwise no complaint is bound and
\* the walk pauses asking for the issue.
C21_ComplaintFromRemainder ==
  (Done /\ Ran("collector") /\ last.pre.complaint = None /\ LastSt.order_id # None) =>
    IF TextLen(Remainder) > ComplaintMinLen
      THEN LastSt.complaint = Some(Remainder)
      ELSE /\ LastSt.complaint = None
           /\ LastNode = "collector"
           /\ LastSt.needs_input
           /\ LastSt.response_message = RespIssue

\* The identifier token in the text of the last turn's inbound unit, if any.
UnitId ==
  IF last.unit.message = None THEN None
  ELSE Search(OrderTokens, Val(last.unit.message))

\* C22: order_id differs after a turn from what it was before only if the turn's
\* message holds an identifier token and order_id is that token uppercased, or
\* if order_id is unbound and the walk ended at a Collector whose catalog lookup
\* failed.
C22_OrderIdFrame ==
  (Done /\ LastSt.order_id # last.pre.order_id) =>
    \/ UnitId # None /\ LastSt.order_id = Some(Upper(Val(UnitId)))
    \/ /\ LastSt.order_id = None
       /\ LastNode = "collector"
       /\ LookedUp # None /\ Val(LookedUp) \notin Catalog

C22_Witness ==
  /\ Done
  /\ last.pre.order_id = Some("XRD12345")
  /\ last.pre.image_verdict # None
  /\ LastSt.order_id = Some("XRD22222")

\* C23: once image_path is bound, a later turn leaves it as it was.
C23_ImagePathSetOnce ==
  (Done /\ last.pre.image_path # None) => LastSt.image_path = last.pre.image_path

\* C24: once complaint is bound, a later walk leaves it as it was.
C24_ComplaintSetOnce ==
  (Done /\ last.pre.complaint # None) => LastSt.complaint = last.pre.complaint

C24_Witness ==
  /\ Done /\ Ran("collector")
  /\ last.pre.complaint = Some(<<"xrd12345", Space, "bad">>)
  /\ last.unit.message = Some(MsgClaim)
  /\ LastSt.complaint = last.pre.complaint

\* C25: a Finalizer that gets to its ledger step on a file that is no list of
\* entries (missing, unparsable, or another JSON value) does not raise: the file
\* then holds the list of this one entry and the walk ends with needs_input false.
C25_LedgerErrorsNotFatal ==
  (Done /\ Ran("finalizer") /\ last.ledger0.kind # "list"
        /\ ~(~last.raised /\ LastSt.response_message = RespStillNeedEmail)) =>
    /\ ~last.raised
    /\ ledger.kind = "list" /\ Len(ledger.entries) = 1
    /\ ledger.entries[1].session_id = last.sid
    /\ ~LastSt.needs_input

\* The outcomes of a vision request that are failures of the collaborator.
FailureKinds == {"unreadable", "request_failed", "no_braces", "bad_json"}

\* C26: a walk whose vision request failed bound a verdict of status acceptable,
\* went through Decision and ended denied, without raising.
C26_VisionFailureDenies ==
  (Done /\ last.vision > 0 /\ last.outcome.kind \in FailureKinds) =>
    /\ ~last.raised
    /\ Ran("decision")
    /\ Val(LastSt.image_verdict).status = Some("acceptable")
    /\ LastSt.refund_status = "denied"

C26_Witness ==
  /\ Done /\ last.vision > 0 /\ last.outcome.kind = "bad_json"
  /\ Val(LastSt.image_verdict) =
       Verdict(Some("acceptable"), Some("Technical Verification Failed"))
  /\ LastSt.refund_status = "denied"

\* The calls to the sender and the ledger entries the last walk added.
NewCalls == { sent[i] : i \in (Len(last.sent0) + 1)..Len(sent) }
NewEntries ==
  { ledger.entries[i] : i \in (Len(last.ledger0.entries) + 1)..Len(ledger.entries) }

\* C27: the Finalizer's call to the sender has the bound e-mail as recipient, the
\* rendered receipt as body and the order identifier as order_id.
C27_ReceiptArguments ==
  Done =>
    \A call \in NewCalls :
      /\ call.recipient = Val(LastSt.email)
      /\ call.body = generate_receipt(LastSt.order_id, Val(LastSt.image_verdict))
      /\ call.order_id = <<IdStr(LastSt.order_id)>>

\* C28: a turn whose inbound unit has no message text, on a session that holds
\* the text of an earlier turn, adds no user entry for that text to the history
\* and does not run the classifier on it.
C28_NoMessageNoReprocessing ==
  (Done /\ last.unit.message = None /\ last.pre.user_message # <<>>) =>
    /\ [role |-> "user", content |-> last.pre.user_message] \notin Gained
    /\ ~last.classified

\* C29: every ledger entry has status approved or denied, and an approved entry
\* carries an e-mail that holds a mailbox.
C29_EntriesWellFormed ==
  \A i \in DOMAIN ledger.entries :
    /\ ledger.entries[i].status \in Final
    /\ ledger.entries[i].status = "approved" => HasMailbox(ledger.entries[i].email)

C29_Witness ==
  /\ Done /\ last.path = <<"intent_reviewer", "finalizer">>
  /\ Len(ledger.entries) > 0
  /\ ledger.entries[Len(ledger.entries)] \in NewEntries
  /\ ledger.entries[Len(ledger.entries)].status = "approved"

\* C30: an approved entry the last walk appended, and a receipt it sent, name the
\* order the session had bound when its verdict was computed, a catalog order.
C30_ApprovalNamesVerdictOrder ==
  Done =>
    LET order == last.vorder[last.sid]
    IN  /\ \A entry \in NewEntries :
             entry.status = "approved" =>
               /\ entry.order_id = order
               /\ order # None /\ Val(order) \in Catalog
        /\ \A call \in NewCalls : call.body = <<"Refund: ", IdStr(order)>>

\* C31: a walk whose Collector accepted all three prerequisites ran Image
\* Analysis and then Decision right after it and ended with image_verdict bound
\* and refund_status approved or denied; no session is stored with the three
\* prerequisites bound and refund_status still "".
C31_ReadyReachesDecision ==
  Done =>
    /\ (Ran("collector") /\ Prerequisites) =>
         /\ \E i \in DOMAIN last.path :
              /\ i + 2 <= Len(last.path)
              /\ last.path[i] = "collector"
              /\ last.path[i + 1] = "image_analyzer"
              /\ last.path[i + 2] = "decision"
         /\ LastSt.image_verdict # None
         /\ LastSt.refund_status \in Final
    /\ \A sid \in DOMAIN sessions :
         ~ /\ sessions[sid].order_id # None /\ Val(sessions[sid].order_id) \in Catalog
           /\ sessions[sid].complaint # None
           /\ sessions[sid].image_path # None
           /\ sessions[sid].refund_status = ""

C31_Witness ==
  /\ Done /\ Ran("collector") /\ Prerequisites
  /\ ~last.unit.image
  /\ last.pre.refund_status = ""
  /\ LastSt.image_verdict = Some(Verdict(None, None))
  /\ LastSt.refund_status = "denied"

====
